---- MODULE Spec2Model ----
(***************************************************************************)
(* Model of tos/HL_LL_global/0.global_tos.py: the catalog selection, the   *)
(* helpers get_lat_name, selstr and combine_df, the weighted global mean   *)
(* global_mean, and the driver loop that writes one CSV per catalog entry. *)
(*                                                                         *)
(* Python strings are sequences of one-character strings, so that          *)
(* indexing, str.replace and substring search are computed as Python       *)
(* computes them.  Floating-point numbers are pairs <<n, d>>: a rational   *)
(* n/d when d > 0, +inf as <<1,0>>, -inf as <<-1,0>> and NaN as <<0,0>>;   *)
(* rounding is not modelled.                                               *)
(***************************************************************************)
EXTENDS Integers, Sequences, FiniteSets, TLC

VARIABLES catalog, store, idx, pc, file, ofile, out, fs, stdout, attempts,
          outcome, call

vars == <<catalog, store, idx, pc, file, ofile, out, fs, stdout, attempts,
          outcome, call>>

driverVars == <<catalog, store, idx, pc, file, ofile, out, fs, stdout,
                attempts, outcome>>

\* ------------------------------------------------------------------------
\* Bounds of the model
\* ------------------------------------------------------------------------
MaxCatalog == 2
MaxStr == 4
MaxLat == 3
MaxRows == 2
MaxMonths == 25
MaxIndexRows == 2
MaxGridLat == 2

\* ------------------------------------------------------------------------
\* Results of a call: a returned value or a raised exception
\* ------------------------------------------------------------------------
Return(v) == [kind |-> "return", value |-> v]
Raise(e) == [kind |-> "raise", exc |-> e]
Returned(r) == r.kind = "return"
Raised(r) == r.kind = "raise"

\* ------------------------------------------------------------------------
\* Python strings
\* ------------------------------------------------------------------------
RECURSIVE Replace(_, _, _)
\* str.replace(old, new): non-overlapping occurrences, left to right.
Replace(s, old, new) ==
  IF Len(s) < Len(old) \/ Len(old) = 0 THEN s
  ELSE IF SubSeq(s, 1, Len(old)) = old
       THEN new \o Replace(SubSeq(s, Len(old) + 1, Len(s)), old, new)
       ELSE <<s[1]>> \o Replace(Tail(s), old, new)

\* "sub in s" / Series.str.contains(sub) for a literal pattern.
Contains(s, sub) ==
  \E k \in 1..(Len(s) - Len(sub) + 1) : SubSeq(s, k, k + Len(sub) - 1) = sub

\* ------------------------------------------------------------------------
\* Floating-point numbers as extended rationals
\* ------------------------------------------------------------------------
NaN == <<0, 0>>
IsNaN(a) == a[1] = 0 /\ a[2] = 0
IsInf(a) == a[1] # 0 /\ a[2] = 0
Abs(n) == IF n < 0 THEN -n ELSE n
Sign(n) == IF n < 0 THEN -1 ELSE IF n > 0 THEN 1 ELSE 0

RECURSIVE Gcd(_, _)
Gcd(a, b) == IF b = 0 THEN a ELSE Gcd(b, a % b)

\* The canonical pair of n/d, d # 0.
Norm(n, d) ==
  LET g == Gcd(Abs(n), Abs(d))
      s == IF d < 0 THEN -1 ELSE 1
  IN <<(s * n) \div g, (s * d) \div g>>

Num(k) == <<k, 1>>

RAdd(a, b) ==
  IF IsNaN(a) \/ IsNaN(b) THEN NaN
  ELSE IF IsInf(a) THEN (IF IsInf(b) /\ b[1] # a[1] THEN NaN ELSE a)
  ELSE IF IsInf(b) THEN b
  ELSE Norm(a[1] * b[2] + b[1] * a[2], a[2] * b[2])

RMul(a, b) ==
  IF IsNaN(a) \/ IsNaN(b) THEN NaN
  ELSE IF IsInf(a) \/ IsInf(b)
       THEN (IF a[1] = 0 \/ b[1] = 0 THEN NaN
             ELSE <<Sign(a[1]) * Sign(b[1]), 0>>)
  ELSE Norm(a[1] * b[1], a[2] * b[2])

\* IEEE division: x/0 is an infinity for x # 0 and NaN for x = 0.
RDiv(a, b) ==
  IF IsNaN(a) \/ IsNaN(b) THEN NaN
  ELSE IF IsInf(b) THEN (IF IsInf(a) THEN NaN ELSE Num(0))
  ELSE IF IsInf(a) THEN <<Sign(a[1]) * (IF b[1] < 0 THEN -1 ELSE 1), 0>>
  ELSE IF b[1] = 0 THEN (IF a[1] = 0 THEN NaN ELSE <<Sign(a[1]), 0>>)
  ELSE Norm(a[1] * b[2], a[2] * b[1])

RECURSIVE RSum(_)
RSum(xs) == IF xs = <<>> THEN Num(0) ELSE RAdd(Head(xs), RSum(Tail(xs)))

\* mean() with skipna=True (the default of xarray's reductions): NaN
\* entries are left out; no entry left gives NaN.
NanMean(xs) ==
  LET valid == SelectSeq(xs, LAMBDA x : ~IsNaN(x))
  IN IF valid = <<>> THEN NaN ELSE RDiv(RSum(valid), Num(Len(valid)))

\* ------------------------------------------------------------------------
\* Python values that reach selstr: a str, or something else (a list, an
\* int), told apart by type() as line 70 does
\* ------------------------------------------------------------------------
PyStr(s) == [type |-> "str", val |-> s]
PyList(xs) == [type |-> "list", val |-> xs]

\* a[i] on a str: negative indices count from the end; out of range raises.
InIndexRange(s, i) == -Len(s) <= i /\ i < Len(s)
PyIndex(s, i) == IF i >= 0 THEN s[i + 1] ELSE s[Len(s) + i + 1]

\* ------------------------------------------------------------------------
\* get_lat_name (lines 48-58)
\* ------------------------------------------------------------------------
LatNames == <<"lat", "latitude">>

RECURSIVE LatNameLoop(_, _)
LatNameLoop(coords, k) ==
  IF k > Len(LatNames) THEN Raise("RuntimeError")
  ELSE IF LatNames[k] \in coords THEN Return(LatNames[k])
  ELSE LatNameLoop(coords, k + 1)

get_lat_name_latitude_first(coords) ==
  IF "latitude" \in coords THEN Return("latitude")
  ELSE IF "lat" \in coords THEN Return("lat")
  ELSE Raise("RuntimeError")

get_lat_name(coords) == LatNameLoop(coords, 1)

\* ------------------------------------------------------------------------
\* selstr (lines 61-77)
\* ------------------------------------------------------------------------
RECURSIVE SelstrLoop(_, _, _, _)
\* for i in range(start, stop): out.append(a[i]); then "".join(out)
SelstrLoop(s, i, stop, acc) ==
  IF i >= stop THEN Return(acc)
  ELSE IF ~InIndexRange(s, i) THEN Raise("IndexError")
  ELSE SelstrLoop(s, i + 1, stop, Append(acc, PyIndex(s, i)))

selstrInclusiveStop(a, start, stop) ==
  IF a.type # "str" THEN Raise("TypeError")
  ELSE SelstrLoop(a.val, start, stop + 1, <<>>)

selstr(a, start, stop) ==
  IF a.type # "str" THEN Raise("TypeError")
  ELSE SelstrLoop(a.val, start, stop, <<>>)

\* ------------------------------------------------------------------------
\* pandas tables: column names in order, rows as tuples aligned with them
\* ------------------------------------------------------------------------
Table(cols, rows) == [cols |-> cols, rows |-> rows]
ColSet(df) == {df.cols[k] : k \in 1..Len(df.cols)}
ColIdx(df, name) == CHOOSE k \in 1..Len(df.cols) : df.cols[k] = name

\* df[name] = v: overwrites the column in place or appends a new one.
SetCol(df, name, v) ==
  IF name \in ColSet(df)
  THEN Table(df.cols,
             [i \in 1..Len(df.rows) |->
                [df.rows[i] EXCEPT ![ColIdx(df, name)] = v]])
  ELSE Table(Append(df.cols, name),
             [i \in 1..Len(df.rows) |-> Append(df.rows[i], v)])

\* df.drop(columns=name)
DropCol(df, name) ==
  LET keep == SelectSeq([k \in 1..Len(df.cols) |-> k],
                        LAMBDA k : df.cols[k] # name)
  IN Table([k \in 1..Len(keep) |-> df.cols[keep[k]]],
           [i \in 1..Len(df.rows) |->
              [k \in 1..Len(keep) |-> df.rows[i][keep[k]]]])

RECURSIVE Concat(_)
Concat(xss) == IF xss = <<>> THEN <<>> ELSE Head(xss) \o Concat(Tail(xss))

\* df1.merge(df2): inner join on every column name the two share; the
\* shared columns appear once, then the remaining columns of df2.
Merge(l, r) ==
  LET common == SelectSeq(l.cols, LAMBDA c : c \in ColSet(r))
      rest == SelectSeq(r.cols, LAMBDA c : c \notin ColSet(l))
      Match(lrow, rrow) ==
        \A k \in 1..Len(common) :
          lrow[ColIdx(l, common[k])] = rrow[ColIdx(r, common[k])]
      Joined(lrow, rrow) ==
        lrow \o [k \in 1..Len(rest) |-> rrow[ColIdx(r, rest[k])]]
      RowsOf(lrow) ==
        LET hit == SelectSeq(r.rows, LAMBDA rrow : Match(lrow, rrow))
        IN [k \in 1..Len(hit) |-> Joined(lrow, hit[k])]
  IN Table(l.cols \o rest,
           Concat([i \in 1..Len(l.rows) |-> RowsOf(l.rows[i])]))

\* ------------------------------------------------------------------------
\* combine_df (lines 80-95)
\* ------------------------------------------------------------------------
combine_dfKeepKey(df1, df2) ==
  Merge(SetCol(df1, "j", 1), SetCol(df2, "j", 1))

combine_df(df1, df2) ==
  DropCol(Merge(SetCol(df1, "j", 1), SetCol(df2, "j", 1)), "j")

\* ------------------------------------------------------------------------
\* Catalog Selector (lines 16-26).  A catalog row is a record with the
\* fields source_id, member_id, experiment_id, variable_id and grid_label;
\* the index and the selected catalog are sequences of rows.
\* ------------------------------------------------------------------------
expts == {"historical"}
cmip_vars == {"tos"}
grid_label == "gn"
MemberMarker == <<"p", "1">>

RowSet(tbl) == {tbl[k] : k \in 1..Len(tbl)}

\* The source models of the index, in the sorted order in which groupby
\* visits them.
SortedSources == <<"CESM2", "MIROC6">>

\* catalog.search(require_all_on=["source_id"], **query): the rows that
\* match the query are grouped by source_id; a group is kept when its rows
\* cover every requested (experiment, variable, grid) combination, and the
\* kept groups are concatenated in the sorted order of their source_id.
Search(index) ==
  LET Matches(r) == /\ r.experiment_id \in expts
                    /\ r.variable_id \in cmip_vars
                    /\ r.grid_label = grid_label
      matched == SelectSeq(index, Matches)
      Group(src) == SelectSeq(matched, LAMBDA r : r.source_id = src)
      Covered(src) ==
        {<<r.experiment_id, r.variable_id, r.grid_label>> :
           r \in RowSet(Group(src))}
      HasAll(src) == Covered(src) = expts \X cmip_vars \X {grid_label}
  IN Concat([k \in 1..Len(SortedSources) |->
               IF HasAll(SortedSources[k]) THEN Group(SortedSources[k])
               ELSE <<>>])

MemberFilterNone(tbl) == tbl

\* catalog.loc[catalog['member_id'].str.contains('p1')]
MemberFilter(tbl) ==
  SelectSeq(tbl, LAMBDA r : Contains(r.member_id, MemberMarker))

SelectCatalog(index) == MemberFilter(Search(index))

\* ------------------------------------------------------------------------
\* global_mean (lines 98-129) and its pieces
\* ------------------------------------------------------------------------
\* A dataset store: reachable (open_zarr succeeds), attrs, units of the
\* variable, coords (the coordinate names), lat (the latitude axis in
\* degrees), time (the time axis, in half months since year 0) and tos
\* (time x lat x lon values).

\* get_ds_meta (lines 29-45): the one-row metadata table.
get_ds_meta(ds) ==
  Table(<<"variable", "experiment", "units", "ensemble", "model">>,
        <<<<ds.attrs.variable_id, ds.attrs.experiment_id, ds.units,
            ds.attrs.variant_label, ds.attrs.source_id>>>>)

\* np.cos(np.deg2rad(lat)) on the latitudes the model draws.  The double
\* nearest pi/2 lies below pi/2, so the cosine of +-90 degrees evaluates
\* to 6.1e-17 and not to 0: a small positive number stands for it.
CosDeg(lat) ==
  CASE lat = 0 -> <<1, 1>>
    [] lat \in {-60, 60} -> <<1, 2>>
    [] lat \in {-90, 90} -> <<1, 1000>>
    [] lat \in {-120, 120} -> <<-1, 2>>
    [] lat \in {-180, 180} -> <<-1, 1>>

CosAxis(lat) == [k \in 1..Len(lat) |-> CosDeg(lat[k])]

\* Lines 113-114: weight = cos(deg2rad(lat)); weight /= weight.mean()
WeightsBySum(lat) ==
  LET c == CosAxis(lat)
  IN [k \in 1..Len(lat) |-> RDiv(c[k], RSum(c))]

Weights(lat) ==
  LET c == CosAxis(lat)
      m == NanMean(c)
  IN [k \in 1..Len(lat) |-> RDiv(c[k], m)]

\* (ds * weight).mean(other_dims) at one time step: the mean, over the
\* cells that are not NaN, of value times latitude weight.
SpatialMean(grid, w) ==
  NanMean(Concat([i \in 1..Len(grid) |->
                    [j \in 1..Len(grid[i]) |-> RMul(grid[i][j], w[i])]]))

Window == 12

\* The k-th window of a coarsened axis.
WindowOf(xs, k) == SubSeq(xs, (k - 1) * Window + 1, k * Window)

\* .coarsen(time=12).mean(): boundary="exact" is the default, so a length
\* that is no multiple of the window raises.
CoarsenTrim(xs) ==
  Return([k \in 1..(Len(xs) \div Window) |-> NanMean(WindowOf(xs, k))])

Coarsen(xs) ==
  IF Len(xs) % Window # 0 THEN Raise("ValueError")
  ELSE Return([k \in 1..(Len(xs) \div Window) |-> NanMean(WindowOf(xs, k))])

\* The time coordinate of the coarsened result: the mean of each window.
RECURSIVE IntSum(_)
IntSum(xs) == IF xs = <<>> THEN 0 ELSE Head(xs) + IntSum(Tail(xs))

CoarsenTime(ts) ==
  [k \in 1..(Len(ts) \div Window) |-> IntSum(WindowOf(ts, k)) \div Window]

\* dt.strftime("%Y%m%d") of a time in half months since year 0.
Digit(d) == <<"0", "1", "2", "3", "4", "5", "6", "7", "8", "9">>[d + 1]
TwoDigits(n) == <<Digit(n \div 10), Digit(n % 10)>>
Strftime(t) ==
  LET y == t \div 24
      m == (t % 24) \div 2 + 1
      d == IF t % 2 = 0 THEN 1 ELSE 16
  IN TwoDigits(y \div 100) \o TwoDigits(y % 100) \o TwoDigits(m)
       \o TwoDigits(d)

global_mean(ds) ==
  IF ~ds.reachable THEN Raise("OSError")
  ELSE
    LET meta == get_ds_meta(ds)
        lat_name == get_lat_name(ds.coords)
    IN IF Raised(lat_name) THEN lat_name
       ELSE
         LET weight == Weights(ds.lat)
             monthly == [t \in 1..Len(ds.tos) |->
                           SpatialMean(ds.tos[t], weight)]
             rslt == Coarsen(monthly)
         IN IF Raised(rslt) THEN rslt
            ELSE
              LET t == CoarsenTime(ds.time)
                  year == [k \in 1..Len(t) |->
                             selstr(PyStr(Strftime(t[k])), 0, 4)]
              IN IF \E k \in 1..Len(t) : Raised(year[k])
                 THEN year[CHOOSE k \in 1..Len(t) : Raised(year[k])]
                 ELSE IF ds.attrs.variable_id # "tos" THEN Raise("KeyError")
                 ELSE
                   LET df == Table(<<"year", "value">>,
                                   [k \in 1..Len(t) |->
                                      <<year[k].value, rslt.value[k]>>])
                   IN Return(SetCol(combine_df(meta, df), "area", "global"))

\* ------------------------------------------------------------------------
\* Inputs of the function-level specification
\* ------------------------------------------------------------------------
SeqsUpTo(S, n) == UNION {[1..k -> S] : k \in 0..n}
DistinctSeqs(S, n) ==
  {s \in UNION {[1..k -> S] : k \in 1..n} :
     \A a, b \in 1..Len(s) : a # b => s[a] # s[b]}

CoordNames == {"lat", "latitude", "lon", "time"}

Date20050115 == <<"2", "0", "0", "5", "0", "1", "1", "5">>
SelstrInputs ==
  {PyStr(s) : s \in SeqsUpTo({"2", "0"}, MaxStr) \cup {Date20050115}}
    \cup {PyList(<<Date20050115>>), PyList(<<>>)}
SelstrIndices == (-2)..(MaxStr + 1)

ColsA == DistinctSeqs({"model", "year", "j"}, 2)
ColsB == DistinctSeqs({"year", "value", "j"}, 2)
Cells == {1, 2}
TablesA ==
  UNION {{Table(c, <<row>>) : row \in [1..Len(c) -> Cells]} : c \in ColsA}
TablesB ==
  UNION {{Table(c, rows) : rows \in SeqsUpTo([1..Len(c) -> Cells], MaxRows)} :
           c \in ColsB}

R1I1P1F1 == <<"r", "1", "i", "1", "p", "1", "f", "1">>
R2I1P1F1 == <<"r", "2", "i", "1", "p", "1", "f", "1">>
R1I1P2F1 == <<"r", "1", "i", "1", "p", "2", "f", "1">>
IndexRows ==
  [source_id : RowSet(SortedSources),
   member_id : {R1I1P1F1, R2I1P1F1, R1I1P2F1},
   experiment_id : {"historical", "ssp585"},
   variable_id : {"tos", "tas"},
   grid_label : {"gn", "gr"}]
Indexes == SeqsUpTo(IndexRows, MaxIndexRows)

Lats == {-90, -60, 0, 60, 90, 180}
LatAxes == UNION {[1..k -> Lats] : k \in 1..MaxLat}

\* Monthly time axis of n records starting in January 2005.
MonthlyTime(n) == [k \in 1..n |-> 24 * 2005 + 2 * (k - 1) + 1]

Attrs ==
  [variable_id |-> "tos", experiment_id |-> "historical",
   variant_label |-> "r1i1p1f1", source_id |-> "CESM2"]

\* A one-cell dataset of n monthly records whose value at record t is
\* (t * step) % 7.
SeriesDs(n, step) ==
  [reachable |-> TRUE, attrs |-> Attrs, units |-> "degC",
   coords |-> {"lat", "lon", "time"}, lat |-> <<0>>,
   time |-> MonthlyTime(n),
   tos |-> [t \in 1..n |-> <<<<Num((t * step) % 7)>>>>]]

\* One year of a field equal to c on every cell but those of mask, which
\* are NaN, on the grid lat x 1..nlon; latName names the latitude axis.
GridDs(lat, nlon, mask, c, latName) ==
  [reachable |-> TRUE, attrs |-> Attrs, units |-> "degC",
   coords |-> {latName, "lon", "time"}, lat |-> lat,
   time |-> MonthlyTime(Window),
   tos |-> [t \in 1..Window |->
              [i \in 1..Len(lat) |->
                 [j \in 1..nlon |->
                    IF <<i, j>> \in mask THEN NaN ELSE Num(c)]]]]

GridLats == {-60, 0, 60}
GridAxes == UNION {[1..k -> GridLats] : k \in 1..MaxGridLat}
GridDatasets ==
  UNION {{GridDs(lat, nlon, mask, c, "lat") :
            mask \in (SUBSET ((1..Len(lat)) \X (1..nlon)))
                       \ {(1..Len(lat)) \X (1..nlon)},
            c \in {1, 3}} :
         lat \in GridAxes, nlon \in 1..2}
SeriesDatasets == {SeriesDs(n, step) : n \in 0..MaxMonths, step \in 1..3}

\* ------------------------------------------------------------------------
\* Function-level specification: a behaviour applies one function of the
\* script to one input drawn from the sets above and records the call.
\* ------------------------------------------------------------------------
NoCall == [op |-> "none"]

CallGetLatName ==
  /\ call = NoCall
  /\ \E coords \in SUBSET CoordNames :
       call' = [op |-> "get_lat_name", coords |-> coords,
                res |-> get_lat_name(coords)]
  /\ UNCHANGED driverVars

CallSelstr ==
  /\ call = NoCall
  /\ \E a \in SelstrInputs, start \in SelstrIndices, stop \in SelstrIndices :
       call' = [op |-> "selstr", a |-> a, start |-> start, stop |-> stop,
                res |-> selstr(a, start, stop)]
  /\ UNCHANGED driverVars

CallCombineDf ==
  /\ call = NoCall
  /\ \E df1 \in TablesA, df2 \in TablesB :
       call' = [op |-> "combine_df", df1 |-> df1, df2 |-> df2,
                res |-> combine_df(df1, df2)]
  /\ UNCHANGED driverVars

CallSelectCatalog ==
  /\ call = NoCall
  /\ \E index \in Indexes :
       call' = [op |-> "catalog", index |-> index,
                res |-> SelectCatalog(index)]
  /\ UNCHANGED driverVars

CallWeights ==
  /\ call = NoCall
  /\ \E lat \in LatAxes :
       call' = [op |-> "weights", lat |-> lat, res |-> Weights(lat)]
  /\ UNCHANGED driverVars

CallGlobalMean ==
  /\ call = NoCall
  /\ \E ds \in GridDatasets \cup SeriesDatasets :
       call' = [op |-> "global_mean", ds |-> ds, res |-> global_mean(ds)]
  /\ UNCHANGED driverVars

\* ------------------------------------------------------------------------
\* The driver (lines 131-145)
\* ------------------------------------------------------------------------
outdir ==
  <<".", "/", "g", "l", "o", "b", "a", "l", "/">>
CsvSuffix ==
  <<".", "c", "s", "v">>
GsPrefix ==
  <<"g", "s", ":", "_", "_", "c", "m", "i", "p", "6", "_">>
ProblemWith ==
  <<"p", "r", "o", "b", "l", "e", "m", " ", "w", "i", "t", "h", " ">>

\* Lines 140-141: the slashes of the storage path become underscores, the
\* directory and the suffix are added, then the literal prefix is removed.
OFileStripFirst(f) ==
  outdir \o Replace(Replace(f, GsPrefix, <<>>), <<"/">>, <<"_">>) \o CsvSuffix

OFile(f) ==
  Replace(outdir \o Replace(f, <<"/">>, <<"_">>) \o CsvSuffix, GsPrefix, <<>>)

\* Storage locations the catalog is drawn from.
FooPath ==
  <<"g", "s", ":", "/", "/", "c", "m", "i", "p", "6", "/", "h", "i", "s",
  "t", "o", "r", "i", "c", "a", "l", "/", "f", "o", "o", ".", "z", "a",
  "r", "r">>
PathAB ==
  <<"g", "s", ":", "/", "/", "c", "m", "i", "p", "6", "/", "a", "/", "b">>
PathA_B ==
  <<"g", "s", ":", "/", "/", "c", "m", "i", "p", "6", "/", "a", "_", "b">>
Paths == {FooPath, PathAB, PathA_B}
Catalogs == {<<>>} \cup DistinctSeqs(Paths, MaxCatalog)

\* What a storage location may hold: a store that cannot be opened, one
\* without a latitude coordinate, one of 13 monthly records, and two that
\* reduce (12 and 24 records).
DsUnreachable == [SeriesDs(0, 1) EXCEPT !.reachable = FALSE]
DsNoLat == [SeriesDs(12, 1) EXCEPT !.coords = {"nav_lat", "lon", "time"}]
StoreDatasets ==
  {DsUnreachable, DsNoLat, SeriesDs(13, 1), SeriesDs(12, 1), SeriesDs(24, 2)}

NoTable == Table(<<>>, <<>>)

Init ==
  /\ catalog \in Catalogs
  /\ store \in [Paths -> StoreDatasets]
  /\ idx = 0
  /\ pc = "for"
  /\ file = <<>>
  /\ ofile = <<>>
  /\ out = NoTable
  /\ fs = <<>>
  /\ stdout = <<>>
  /\ attempts = <<>>
  /\ outcome = <<>>
  /\ call = NoCall

\* Line 138: the for statement takes the next zstore, or ends the loop.
ForNext ==
  /\ pc = "for"
  /\ idx < Len(catalog)
  /\ idx' = idx + 1
  /\ file' = catalog[idx + 1]
  /\ attempts' = Append(attempts, catalog[idx + 1])
  /\ pc' = "ofile"
  /\ UNCHANGED <<catalog, store, ofile, out, fs, stdout, outcome, call>>

ForEnd ==
  /\ pc = "for"
  /\ idx = Len(catalog)
  /\ pc' = "done"
  /\ UNCHANGED <<catalog, store, idx, file, ofile, out, fs, stdout, attempts,
                 outcome, call>>

\* Lines 140-141
MakeOfile ==
  /\ pc = "ofile"
  /\ ofile' = OFile(file)
  /\ pc' = "global_mean"
  /\ UNCHANGED <<catalog, store, idx, file, out, fs, stdout, attempts,
                 outcome, call>>

\* Line 142: out = global_mean(file); an exception goes to the handler.
CallGlobalMeanInLoop ==
  /\ pc = "global_mean"
  /\ LET r == global_mean(store[file])
     IN IF Raised(r)
        THEN /\ pc' = "except"
             /\ outcome' = Append(outcome, "global_mean raised")
             /\ out' = out
        ELSE /\ pc' = "to_csv"
             /\ out' = r.value
             /\ outcome' = outcome
  /\ UNCHANGED <<catalog, store, idx, file, ofile, fs, stdout, attempts, call>>

\* Line 143: out.to_csv(ofile, index=False) writes the file.
ToCsv ==
  /\ pc = "to_csv"
  /\ fs' = (ofile :> out) @@ fs
  /\ outcome' = Append(outcome, "ok")
  /\ pc' = "for"
  /\ UNCHANGED <<catalog, store, idx, file, ofile, out, stdout, attempts, call>>

\* Line 143 when the write fails: the file was not created, or was created
\* and left without its rows.
ToCsvRaises ==
  /\ pc = "to_csv"
  /\ fs' \in {fs, (ofile :> NoTable) @@ fs}
  /\ outcome' = Append(outcome, "to_csv raised")
  /\ pc' = "except"
  /\ UNCHANGED <<catalog, store, idx, file, ofile, out, stdout, attempts, call>>

\* An exception that is not caught leaves the loop.
ExceptPropagates ==
  /\ pc = "except"
  /\ pc' = "aborted"
  /\ UNCHANGED <<catalog, store, idx, file, ofile, out, fs, stdout, attempts,
                 outcome, call>>

\* Lines 144-145: the bare except prints one line and the loop goes on.
Except ==
  /\ pc = "except"
  /\ stdout' = Append(stdout, ProblemWith \o file)
  /\ pc' = "for"
  /\ UNCHANGED <<catalog, store, idx, file, ofile, out, fs, attempts,
                 outcome, call>>

Next ==
  \/ ForNext
  \/ ForEnd
  \/ MakeOfile
  \/ CallGlobalMeanInLoop
  \/ ToCsv
  \/ ToCsvRaises
  \/ Except

Spec == Init /\ [][Next]_vars

\* The function-level specification leaves the driver where it is before
\* the loop starts, over an empty catalog.
InitFn ==
  /\ catalog = <<>>
  /\ store = <<>>
  /\ idx = 0
  /\ pc = "for"
  /\ file = <<>>
  /\ ofile = <<>>
  /\ out = NoTable
  /\ fs = <<>>
  /\ stdout = <<>>
  /\ attempts = <<>>
  /\ outcome = <<>>
  /\ call = NoCall

NextFn ==
  \/ CallGetLatName
  \/ CallSelstr
  \/ CallCombineDf
  \/ CallSelectCatalog
  \/ CallWeights
  \/ CallGlobalMean

SpecFn == InitFn /\ [][NextFn]_vars

\* ------------------------------------------------------------------------
\* Properties of the helper functions (checked under SpecFn)
\* ------------------------------------------------------------------------

\* C8: get_lat_name returns "lat" whenever a coordinate lat is present
\* (also beside latitude), "latitude" when only that one is present, and
\* raises (a RuntimeError) when neither is; there is no other outcome.
C8_LatName ==
  call.op = "get_lat_name" =>
    /\ "lat" \in call.coords => call.res = Return("lat")
    /\ "lat" \notin call.coords /\ "latitude" \in call.coords
         => call.res = Return("latitude")
    /\ "lat" \notin call.coords /\ "latitude" \notin call.coords
         => call.res = Raise("RuntimeError")

C8_Witness ==
  /\ call.op = "get_lat_name"
  /\ {"lat", "latitude"} \subseteq call.coords
  /\ call.res = Return("lat")

\* The characters of s whose index lies in [start, stop), in order.
CharsInRange(s, start, stop) ==
  SubSeq(s, (IF start < 0 THEN 0 ELSE start) + 1,
            IF stop > Len(s) THEN Len(s) ELSE stop)

Paired(df1, df2) ==
  DropCol(Table(df1.cols \o df2.cols,
                [k \in 1..Len(df2.rows) |-> df1.rows[1] \o df2.rows[k]]),
          "j")

\* C7 as stated: for a 1-row A and an N-row B of any column names the
\* result has N rows, row k pairing A's row with B's row k, under the
\* columns of A then those of B, j absent.
C7_Original ==
  call.op = "combine_df" => call.res = Paired(call.df1, call.df2)

\* C7 amended: the same, provided A and B share no column name and
\* neither has a column named j.
C7_CombineDf ==
  /\ call.op = "combine_df"
  /\ ColSet(call.df1) \cap ColSet(call.df2) = {}
  /\ "j" \notin ColSet(call.df1) \cup ColSet(call.df2)
  => /\ call.res = Paired(call.df1, call.df2)
     /\ Len(call.res.rows) = Len(call.df2.rows)
     /\ call.res.cols = call.df1.cols \o call.df2.cols

C7_Witness ==
  /\ call.op = "combine_df"
  /\ call.df1.cols = <<"model">>
  /\ call.df2.cols = <<"year", "value">>
  /\ Len(call.df2.rows) = 2
  /\ Len(call.res.rows) = 2
  /\ call.res.cols = <<"model", "year", "value">>

Count(tbl, r) == Cardinality({k \in 1..Len(tbl) : tbl[k] = r})

\* A row of experiment historical, variable tos and grid gn whose
\* member_id contains p1.
Selected(r) ==
  /\ r.experiment_id = "historical"
  /\ r.variable_id = "tos"
  /\ r.grid_label = "gn"
  /\ \E k \in 1..(Len(r.member_id) - 1) :
       r.member_id[k] = "p" /\ r.member_id[k + 1] = "1"

SeriesWindowMean(step, k) ==
  Norm(IntSum([t \in 1..Window |-> (((k - 1) * Window + t) * step) % 7]),
       Window)

\* The value column of row k of a result table.
ValueOf(tbl, k) == tbl.rows[k][ColIdx(tbl, "value")]
IsSeries(ds) == \E step \in 1..3 : ds = SeriesDs(Len(ds.tos), step)
StepOf(ds) == CHOOSE step \in 1..3 : ds = SeriesDs(Len(ds.tos), step)

\* The table of a series has n \div 12 rows, row k holding the mean of
\* records 12(k-1)+1 .. 12k.
YearlyRows(ds, res) ==
  /\ Returned(res)
  /\ Len(res.value.rows) = Len(ds.tos) \div Window
  /\ \A k \in 1..Len(res.value.rows) :
       ValueOf(res.value, k) = SeriesWindowMean(StepOf(ds), k)

\* C4 as stated: a series of n records gives floor(n/12) yearly rows,
\* each the mean of 12 consecutive records; a trailing partial window is
\* dropped and the reduction succeeds.
C4_Original ==
  call.op = "global_mean" /\ IsSeries(call.ds)
    => YearlyRows(call.ds, call.res)

\* C4 amended: a series whose length n is a multiple of 12 gives n/12
\* yearly rows, each the mean of 12 consecutive records in record order;
\* for any other length the coarsening raises a ValueError and the
\* reduction produces no table.
C4_Coarsen ==
  call.op = "global_mean" /\ IsSeries(call.ds)
    => IF Len(call.ds.tos) % Window = 0
       THEN YearlyRows(call.ds, call.res)
       ELSE call.res = Raise("ValueError")

C4_Witness ==
  /\ call.op = "global_mean"
  /\ call.ds = SeriesDs(24, 1)
  /\ Returned(call.res)
  /\ Len(call.res.value.rows) = 2
  /\ ValueOf(call.res.value, 1) = Num(3)

\* The values of the cells that carry data.
ValidValues(ds) ==
  {ds.tos[t][i][j] : t \in 1..Len(ds.tos), i \in 1..Len(ds.lat),
                     j \in 1..Len(ds.tos[1][1])} \ {NaN}

\* C10: a field equal to one constant c on every cell that carries data,
\* with at least one such cell per time step, yields c in every yearly row.
C10_ConstantField ==
  /\ call.op = "global_mean"
  /\ Len(call.ds.tos) = Window
  /\ Cardinality(ValidValues(call.ds)) = 1
  => /\ Returned(call.res)
     /\ Len(call.res.value.rows) = 1
     /\ \A k \in 1..Len(call.res.value.rows) :
          ValueOf(call.res.value, k) \in ValidValues(call.ds)

\* ------------------------------------------------------------------------
\* Properties of the driver loop (checked under Spec)
\* ------------------------------------------------------------------------
\* The entries whose loop body has ended, and those of them that failed.
Handled == IF pc = "except" THEN Len(outcome) - 1 ELSE Len(outcome)
FailedUpTo(n) ==
  SelectSeq([k \in 1..n |-> k], LAMBDA k : outcome[k] # "ok")
Diagnostics(n) ==
  [k \in 1..Len(FailedUpTo(n)) |-> ProblemWith \o catalog[FailedUpTo(n)[k]]]

\* How far the run has come: five steps at most per entry.
LoopProgress ==
  5 * idx + (CASE pc = "ofile" -> 1
               [] pc = "global_mean" -> 2
               [] pc = "to_csv" -> 3
               [] pc = "except" -> 4
               [] pc = "for" -> 5
               [] OTHER -> 6)

LoopOrder ==
  /\ pc \in {"for", "ofile", "global_mean", "to_csv", "except", "done"}
  /\ idx <= Len(catalog)
  /\ attempts = SubSeq(catalog, 1, idx)
  /\ Len(outcome) = IF pc \in {"for", "except", "done"} THEN idx ELSE idx - 1
  /\ stdout = Diagnostics(Handled)
  /\ pc = "done" => attempts = catalog

\* The guards of the actions of Next: some step of the loop can be taken.
StepPossible ==
  \/ pc = "for" /\ (idx < Len(catalog) \/ idx = Len(catalog))
  \/ pc \in {"ofile", "to_csv", "except"}
  \/ pc = "global_mean" /\ file \in DOMAIN store

\* C1: whatever fails in the loop body, every catalog entry is attempted
\* exactly once and in catalog order, each failed entry has exactly one
\* diagnostic line naming it, a failure never keeps a later entry from
\* being attempted, and the loop ends normally after the last entry.
\* Termination is stated as safety: until the loop is done a step is always
\* possible, and every step increases LoopProgress, which is bounded by
\* the length of the catalog.
C1_Loop ==
  /\ [](LoopOrder /\ (pc # "done" => StepPossible))
  /\ [][LoopProgress' > LoopProgress /\ LoopProgress' <= 5 * Len(catalog) + 6]_vars

C1_Witness ==
  /\ pc = "done"
  /\ Len(catalog) = 2
  /\ outcome = <<"global_mean raised", "ok">>
  /\ stdout = <<ProblemWith \o catalog[1]>>
  /\ attempts = catalog

\* The result table global_mean returns for entry k of the catalog.
TableOf(k) == global_mean(store[catalog[k]]).value

\* C2: after the loop, over a catalog of pairwise distinct locations, each
\* successfully processed entry has its own CSV file holding its result
\* table (no two entries derive the same file name), and no CSV file
\* exists for an entry whose global_mean call raised.
C2_OneFilePerEntry ==
  pc = "done" =>
    /\ \A a, b \in 1..Len(catalog) :
         a # b /\ outcome[a] = "ok" /\ outcome[b] = "ok"
           => OFile(catalog[a]) # OFile(catalog[b])
    /\ \A k \in 1..Len(catalog) :
         /\ outcome[k] = "ok"
              => /\ OFile(catalog[k]) \in DOMAIN fs
                 /\ fs[OFile(catalog[k])] = TableOf(k)
         /\ outcome[k] = "global_mean raised"
              => OFile(catalog[k]) \notin DOMAIN fs

FooClaimed ==
  <<".", "/", "g", "l", "o", "b", "a", "l", "/", "c", "m", "i", "p", "6",
  "_", "h", "i", "s", "t", "o", "r", "i", "c", "a", "l", "_", "f", "o",
  "o", ".", "z", "a", "r", "r", ".", "c", "s", "v">>
FooDerived ==
  <<".", "/", "g", "l", "o", "b", "a", "l", "/", "h", "i", "s", "t", "o",
  "r", "i", "c", "a", "l", "_", "f", "o", "o", ".", "z", "a", "r", "r",
  ".", "c", "s", "v">>

\* C3 as stated: the derivation maps gs://cmip6/historical/foo.zarr to
\* ./global/cmip6_historical_foo.zarr.csv.
C3_Original ==
  pc \in {"global_mean", "to_csv", "except"} /\ file = FooPath
    => ofile = FooClaimed

\* C3 amended: the derivation maps gs://cmip6/historical/foo.zarr to
\* ./global/historical_foo.zarr.csv: after the slashes are replaced the
\* path starts with gs:__cmip6_, and all of that prefix is removed.
C3_Filename ==
  pc \in {"global_mean", "to_csv", "except"} /\ file = FooPath
    => ofile = FooDerived

C3_Witness ==
  /\ pc = "to_csv"
  /\ file = FooPath
  /\ ofile = FooDerived

====
